---- MODULE Spec2Model ----
(***************************************************************************)
(* The haptic node of src/haptic/main.py: a single-threaded reactive loop  *)
(* that receives UDP datagrams (JSON commands), drives one PWM motor       *)
(* output and one buzzer pin, and switches the motor off when the          *)
(* commanded duration has elapsed.                                          *)
(*                                                                         *)
(* Time is in milliseconds.  `now` is MicroPython's wrapping tick counter  *)
(* time.ticks_ms(); `elapsed` is the real time since the first state of    *)
(* the behaviour (it is what the bound MaxElapsed caps).  Intensities are  *)
(* exact fractions n/d, so that int(x * 65535) is computed, not assumed.   *)
(***************************************************************************)
EXTENDS Integers, Sequences, FiniteSets, TLC

\* ---------------------------------------------------------------- bounds
\* Real time (ms) a behaviour of the model covers.
MaxElapsed == 220
\* Replies a behaviour of the model sends.
MaxReplies == 1

\* ------------------------------------------------------ program constants
TOKEN == "change-me"
DEVICE_ID == "haptic01"
\* sock.settimeout(0.05)
RecvTimeoutMs == 50
\* beep(120)
BeepMs == 120
\* upper clamp of duration_ms
MaxDurationMs == 10000
\* msg.get("duration_ms", 1000)
DefaultDurationMs == 1000
\* full scale of pwm.duty_u16
DutyMax == 65535
\* period of time.ticks_ms() in MicroPython: ticks_add / ticks_diff work modulo it
TicksPeriod == 2^30

\* ------------------------------------------------------------ JSON values
\* What dict.get returns for a key the object does not have.
NONE == "<None>"
\* A numeric field: absent, a number, or a value int()/float() reject ("abc", null).
Absent == [t |-> "absent", v |-> 0]
IntField(n) == [t |-> "num", v |-> n]
BadField == [t |-> "bad", v |-> 0]
\* An intensity: absent, the fraction n/d (d > 0), or a value float() rejects.
NoIntensity == [t |-> "absent", n |-> 0, d |-> 1]
Frac(n, d) == [t |-> "num", n |-> n, d |-> d]
BadIntensity == [t |-> "bad", n |-> 0, d |-> 1]

Senders == {"10.0.0.2", "10.0.0.3"}
Tokens == {NONE, TOKEN, "wrong"}
Targets == {NONE, "", DEVICE_ID, "haptic02"}
OtherCmds == {NONE, "stop", "ping", "reboot"}
Durations == {Absent, IntField(-5), IntField(0), IntField(200),
              IntField(10000), IntField(50000), BadField}
Intensities == {NoIntensity, Frac(-3, 10), Frac(0, 1), Frac(1, 2),
                Frac(1, 1), Frac(17, 10), BadIntensity}

Dgram(k, tok, tgt, c, ms, inten, bp, s) ==
    [kind |-> k, token |-> tok, target |-> tgt, cmd |-> c,
     duration_ms |-> ms, intensity |-> inten, beep |-> bp, src |-> s]

\* Payloads ujson.loads rejects, and JSON values that are not objects ([1], 5, "x", null).
NonObjects ==
    { Dgram(k, NONE, NONE, NONE, Absent, NoIntensity, FALSE, "10.0.0.2") :
        k \in {"garbage", "nonobject"} }

\* Objects whose cmd is not buzz: every token and target; a ping from every sender.
PlainObjects ==
    { Dgram("object", tok, tgt, c, Absent, NoIntensity, FALSE, "10.0.0.2") :
        tok \in Tokens, tgt \in Targets, c \in OtherCmds }
    \cup
    { Dgram("object", tok, tgt, "ping", Absent, NoIntensity, FALSE, s) :
        tok \in Tokens, tgt \in Targets, s \in Senders }

\* buzz objects that pass both checks: every duration, intensity and beep.
GoodBuzzes ==
    { Dgram("object", TOKEN, tgt, "buzz", ms, inten, bp, "10.0.0.2") :
        tgt \in {NONE}, ms \in Durations, inten \in Intensities,
        bp \in BOOLEAN }

\* buzz objects with every token and target.
AnyBuzzes ==
    { Dgram("object", tok, tgt, "buzz", ms, Frac(1, 2), bp, "10.0.0.2") :
        tok \in Tokens, tgt \in Targets, ms \in {IntField(200), BadField},
        bp \in BOOLEAN }

Datagrams == NonObjects \cup PlainObjects \cup GoodBuzzes \cup AnyBuzzes

NoDatagram == Dgram("none", NONE, NONE, NONE, Absent, NoIntensity, FALSE, "")

\* ------------------------------------------------------------------ state
VARIABLES
    duty,             \* pwm.duty_u16: the motor output, 0..65535
    buzzer,           \* buzzer.value: 0 or 1
    active_until_ms,  \* the global of main.py: 0 is "inactive"
    now,              \* time.ticks_ms()
    elapsed,          \* real time since the first state
    pc,               \* "recv" | "beep" | "check" | "dead"
    cur,              \* the datagram of this iteration, NoDatagram when none
    replies,          \* the datagrams the node has sent, in order
    lastSend,         \* sock.sendto of this iteration: "none" | "sent" | "failed"
    due,              \* real time at which the commanded duration ends, -1 when none
    wasActive,        \* the node was ACTIVE when this iteration's datagram arrived
    \* the controller, src/haptic/haptic_client.py
    cpc,              \* "off" | "start" | "wait" | "loop" | "done"
    sub,              \* args.cmd, the subcommand
    ctoken,           \* args.token
    ctarget,          \* args.target (NONE when the flag is not given)
    wait_s,           \* args.wait, in ms
    nodeUp,           \* a node listens at args.ip
    sent,             \* the datagrams the controller has sent, in order
    ctime,            \* time.time() - t0 in discover, ms
    found,            \* discover's dict: address -> number of its last reply, 0 for no entry
    nsent,            \* replies each address has had received by discover
    heard,            \* addresses whose reply arrived within wait_s of t0
    result,           \* what send_json returned: "unset" | "reply" | "none"
    exitCode,         \* the process exit status, -1 while running
    \* calc_broadcast
    bip,              \* the base address, as an integer of AddrBits bits
    bmask,            \* the mask argument, as an integer of AddrBits bits
    bres              \* -2 before the call, -1 when it raised, else the address returned

nodeVars == <<duty, buzzer, active_until_ms, now, elapsed, pc, cur, replies,
              lastSend, due, wasActive>>

ctlVars == <<cpc, sub, ctoken, ctarget, wait_s, nodeUp, sent, ctime, found, nsent,
             heard, result, exitCode>>

bcVars == <<bip, bmask, bres>>

vars == <<nodeVars, ctlVars, bcVars>>

\* ---------------------------------------------------------------- helpers
TicksAdd(t, delta) == (t + delta) % TicksPeriod

TicksDiff(a, b) ==
    ((a - b + TicksPeriod \div 2) % TicksPeriod) - TicksPeriod \div 2

\* set_intensity scaling by 65536, one past the full scale of duty_u16.
SetIntensityDuty65536(n, d) ==
    IF n < 0 THEN 0
    ELSE IF n > d THEN 65536
    ELSE (n * 65536) \div d

\* set_intensity: clamp to 0..1, then int(x * 65535).
SetIntensityDuty(n, d) ==
    IF n < 0 THEN 0
    ELSE IF n > d THEN DutyMax
    ELSE (n * DutyMax) \div d

\* A buzz without duration_ms taken as a buzz of 0 ms.
DurationOfZeroDefault(m) == IF m.duration_ms.t = "absent" THEN 0 ELSE m.duration_ms.v

\* int(msg.get("duration_ms", 1000)), then the clamp of line 133.
DurationOf(m) == IF m.duration_ms.t = "absent" THEN DefaultDurationMs ELSE m.duration_ms.v

\* The clamp of line 133 without its upper bound.
ClampDurationLowOnly(ms) == IF ms < 0 THEN 0 ELSE ms

ClampDuration(ms) == IF ms < 0 THEN 0 ELSE IF ms > MaxDurationMs THEN MaxDurationMs ELSE ms

\* float(msg.get("intensity", 1.0)), then the clamp of line 134, as a fraction.
IntensityNum(m) == IF m.intensity.t = "absent" THEN 1 ELSE m.intensity.n
IntensityDen(m) == IF m.intensity.t = "absent" THEN 1 ELSE m.intensity.d
ClampIntensityNum(n, d) == IF n < 0 THEN 0 ELSE IF n > d THEN 1 ELSE n
ClampIntensityDen(n, d) == IF n < 0 THEN 1 ELSE IF n > d THEN 1 ELSE d

\* ujson.loads(payload) raises (caught at line 122).
BadJSON(m) == m.kind = "garbage"

\* BadToken with a missing token let through (only a token that is there is compared).
BadTokenIfPresent(m) == m.token # TOKEN /\ m.token # NONE

\* msg.get("token") != TOKEN
BadToken(m) == m.token # TOKEN

\* Mistargeted with ping exempt (a node that answers every authorized ping).
MistargetedExceptPing(m) ==
    m.target # NONE /\ m.target # "" /\ m.target # DEVICE_ID /\ m.cmd # "ping"

\* tgt and tgt != DEVICE_ID
Mistargeted(m) == m.target # NONE /\ m.target # "" /\ m.target # DEVICE_ID

\* The datagram reaches the cmd dispatch of line 129.
Dispatched(m) == m.kind = "object" /\ ~BadToken(m) /\ ~Mistargeted(m)

\* Raises without the try/except around ujson.loads.
RaisesNoTry(m) ==
    \/ m.kind \in {"garbage", "nonobject"}
    \/ /\ m.kind = "object" /\ m.token = TOKEN
       /\ m.target \in {NONE, "", DEVICE_ID}
       /\ m.cmd = "buzz"
       /\ (m.duration_ms.t = "bad" \/ m.intensity.t = "bad")

\* An exception leaves handle_packet: msg.get on a value that is no dict
\* (AttributeError, line 124), int() or float() on a value they reject (lines 131-132).
\* The ValueError of ujson.loads does not: lines 120-123 catch it.
Raises(m) ==
    \/ m.kind = "nonobject"
    \/ /\ Dispatched(m)
       /\ m.cmd = "buzz"
       /\ (m.duration_ms.t = "bad" \/ m.intensity.t = "bad")

\* ---------------------------------------------------------------- actions
\* stop_vibe that zeroes the output and leaves the deadline pending.
StopVibeOutputOnly ==
    /\ duty' = 0
    /\ UNCHANGED active_until_ms

\* stop_vibe()
StopVibe ==
    /\ duty' = SetIntensityDuty(0, 1)
    /\ active_until_ms' = 0

\* start_vibe that extends a pending deadline instead of replacing it.
StartVibeAdditive(ms, n, d, t) ==
    /\ duty' = (IF n < 0 THEN 0 ELSE IF n > d THEN DutyMax ELSE (n * DutyMax) \div d)
    /\ active_until_ms' = (IF active_until_ms # 0
                            THEN (active_until_ms + ms) % TicksPeriod
                            ELSE (t + ms) % TicksPeriod)

\* start_vibe that lets a pending later deadline win over the new command.
StartVibeKeepLater(ms, n, d, t) ==
    IF active_until_ms # 0 /\ TicksDiff(active_until_ms, TicksAdd(t, IF ms > 0 THEN ms ELSE 0)) > 0
    THEN UNCHANGED <<duty, active_until_ms>>
    ELSE /\ duty' = SetIntensityDuty(n, d)
         /\ active_until_ms' = TicksAdd(t, IF ms > 0 THEN ms ELSE 0)

\* start_vibe(duration_ms, intensity) at tick t
StartVibe(ms, n, d, t) ==
    /\ duty' = SetIntensityDuty(n, d)
    /\ active_until_ms' = TicksAdd(t, IF ms > 0 THEN ms ELSE 0)

\* The reply sent to one configured controller address instead of the sender.
SendReplyToController(m) ==
    \E ok \in BOOLEAN :
        IF ok
        THEN /\ replies' = Append(replies, [to |-> "10.0.0.2", id |-> DEVICE_ID, ok |-> TRUE])
             /\ lastSend' = "sent"
        ELSE /\ replies' = replies
             /\ lastSend' = "failed"

\* sock.sendto(resp.encode(), src) inside try/except: the datagram goes out, or the
\* send raises and the error is swallowed (lines 142-143).
SendReply(m) ==
    \E ok \in BOOLEAN :
        IF ok
        THEN /\ replies' = Append(replies, [to |-> m.src, id |-> DEVICE_ID, ok |-> TRUE])
             /\ lastSend' = "sent"
        ELSE /\ replies' = replies
             /\ lastSend' = "failed"

\* A dispatch that treats every cmd it does not know as a stop.
DispatchUnknownStops(m, t) ==
    IF m.cmd = "buzz"
    THEN /\ StartVibe(ClampDuration(DurationOf(m)),
                      ClampIntensityNum(IntensityNum(m), IntensityDen(m)),
                      ClampIntensityDen(IntensityNum(m), IntensityDen(m)), t)
         /\ due' = elapsed' + ClampDuration(DurationOf(m))
         /\ IF m.beep THEN buzzer' = 1 /\ pc' = "beep"
                      ELSE buzzer' = buzzer /\ pc' = "check"
         /\ UNCHANGED replies
         /\ lastSend' = "none"
    ELSE IF m.cmd = "ping"
    THEN /\ SendReply(m)
         /\ pc' = "check"
         /\ UNCHANGED <<duty, active_until_ms, buzzer, due>>
    ELSE /\ StopVibe
         /\ due' = -1
         /\ pc' = "check"
         /\ UNCHANGED <<buzzer, replies>>
         /\ lastSend' = "none"

\* The cmd dispatch of handle_packet, lines 129-143, at tick t.
Dispatch(m, t) ==
    IF m.cmd = "buzz"
    THEN /\ StartVibe(ClampDuration(DurationOf(m)),
                      ClampIntensityNum(IntensityNum(m), IntensityDen(m)),
                      ClampIntensityDen(IntensityNum(m), IntensityDen(m)), t)
         /\ due' = elapsed' + ClampDuration(DurationOf(m))
         /\ IF m.beep THEN buzzer' = 1 /\ pc' = "beep"
                      ELSE buzzer' = buzzer /\ pc' = "check"
         /\ UNCHANGED replies
         /\ lastSend' = "none"
    ELSE IF m.cmd = "stop"
    THEN /\ StopVibe
         /\ due' = -1
         /\ pc' = "check"
         /\ UNCHANGED <<buzzer, replies>>
         /\ lastSend' = "none"
    ELSE IF m.cmd = "ping"
    THEN /\ SendReply(m)
         /\ pc' = "check"
         /\ UNCHANGED <<duty, active_until_ms, buzzer, due>>
    ELSE /\ pc' = "check"
         /\ UNCHANGED <<duty, active_until_ms, buzzer, replies, due>>
         /\ lastSend' = "none"

\* The datagram is dropped by an early return of handle_packet (lines 123, 125, 128).
Dropped(m) ==
    \/ BadJSON(m)
    \/ m.kind = "object" /\ BadToken(m)
    \/ m.kind = "object" /\ Mistargeted(m)

\* handle_packet(payload, src), entered at tick t.  An exception that leaves it is
\* no OSError, so it leaves the main loop too: the program ends (pc = "dead") with
\* the outputs as they are.
HandlePacket(m, t) ==
    IF Raises(m)
    THEN /\ pc' = "dead"
         /\ UNCHANGED <<duty, active_until_ms, buzzer, replies, due>>
         /\ lastSend' = "none"
    ELSE IF Dropped(m)
    THEN /\ pc' = "check"
         /\ UNCHANGED <<duty, active_until_ms, buzzer, replies, due>>
         /\ lastSend' = "none"
    ELSE Dispatch(m, t)

\* The node state ACTIVE: a deadline is pending or the motor output is on.
Active == active_until_ms # 0 \/ duty # 0

\* How long recvfrom waits before a datagram arrives: at once, or at the end of the poll.
ArrivalDelays == {0, RecvTimeoutMs}

\* Main loop, lines 147-149: recvfrom returns a datagram after w ms and
\* handle_packet processes it.
RecvDatagram ==
    /\ pc = "recv"
    /\ \E w \in ArrivalDelays, m \in Datagrams :
         /\ elapsed + w <= MaxElapsed
         /\ (Dispatched(m) /\ m.cmd = "ping") => Len(replies) < MaxReplies
         /\ elapsed' = elapsed + w
         /\ now' = TicksAdd(now, w)
         /\ cur' = m
         /\ wasActive' = Active
         /\ HandlePacket(m, TicksAdd(now, w))
    /\ UNCHANGED <<ctlVars, bcVars>>

\* Main loop, lines 148 and 150-151: recvfrom raises OSError (the 50 ms timeout).
RecvTimeout ==
    /\ pc = "recv"
    /\ elapsed + RecvTimeoutMs <= MaxElapsed
    /\ elapsed' = elapsed + RecvTimeoutMs
    /\ now' = TicksAdd(now, RecvTimeoutMs)
    /\ pc' = "check"
    /\ cur' = NoDatagram
    /\ lastSend' = "none"
    /\ wasActive' = FALSE
    /\ UNCHANGED <<duty, buzzer, active_until_ms, replies, due>>
    /\ UNCHANGED <<ctlVars, bcVars>>

\* beep(120), lines 50-52: the sleep ends, the finally clause switches the buzzer
\* off, handle_packet returns.
BeepEnd ==
    /\ pc = "beep"
    /\ elapsed + BeepMs <= MaxElapsed
    /\ elapsed' = elapsed + BeepMs
    /\ now' = TicksAdd(now, BeepMs)
    /\ buzzer' = 0
    /\ pc' = "check"
    /\ UNCHANGED <<duty, active_until_ms, cur, replies, lastSend, due, wasActive>>
    /\ UNCHANGED <<ctlVars, bcVars>>

\* A beep without its finally clause: an interrupted pulse leaves the buzzer on.
BeepInterruptedNoFinally ==
    /\ pc = "beep"
    /\ pc' = "dead"
    /\ UNCHANGED <<duty, buzzer, active_until_ms, now, elapsed, cur, replies, lastSend,
                   due, wasActive>>
    /\ UNCHANGED <<ctlVars, bcVars>>

\* beep(120), lines 48-52: time.sleep_ms is interrupted by an exception
\* (KeyboardInterrupt); the finally clause switches the buzzer off, and the
\* exception, which is no OSError, leaves handle_packet and the loop of line 146.
BeepInterrupted ==
    /\ pc = "beep"
    /\ buzzer' = 0
    /\ pc' = "dead"
    /\ UNCHANGED <<duty, active_until_ms, now, elapsed, cur, replies, lastSend, due,
                   wasActive>>
    /\ UNCHANGED <<ctlVars, bcVars>>

\* Main loop, lines 152-153: the auto-stop check, then back to recvfrom.
DeadlineCheck ==
    /\ pc = "check"
    /\ IF active_until_ms # 0 /\ TicksDiff(active_until_ms, now) <= 0
       THEN StopVibe /\ due' = -1
       ELSE UNCHANGED <<duty, active_until_ms, due>>
    /\ pc' = "recv"
    /\ cur' = NoDatagram
    /\ lastSend' = "none"
    /\ wasActive' = FALSE
    /\ UNCHANGED <<buzzer, now, elapsed, replies>>
    /\ UNCHANGED <<ctlVars, bcVars>>

\* The tick counter when the loop is entered, or at any later idle moment: the
\* counter wraps every 2^30 ms of uptime.
StartTicks == {5000, TicksPeriod - 200}

\* The node at rest, as it is after the module's initialisation code.
NodeInit ==
    /\ duty = 0
    /\ buzzer = 0
    /\ active_until_ms = 0
    /\ now \in StartTicks
    /\ elapsed = 0
    /\ pc = "recv"
    /\ cur = NoDatagram
    /\ replies = <<>>
    /\ lastSend = "none"
    /\ due = -1
    /\ wasActive = FALSE

\* ------------------------------------- the controller, src/haptic/haptic_client.py
\* Replies one address sends to one broadcast ping, at most.
MaxDup == 2

\* s.settimeout(0.1) in discover
PollMs == 100

\* The addresses that may answer a broadcast ping.
Addrs == {"10.0.0.11", "10.0.0.12", "10.0.0.13"}

Subcommands == {"ping", "buzz", "stop", "broadcast-ping", "broadcast-buzz"}

\* Values of --wait, in ms.
Waits == {0, 130, 200}

\* How long after the start of a recvfrom a reply arrives (before the poll times out).
ReplyDelays == {0, 50}

\* args.ip and calc_broadcast(args.ip, args.mask)
UnicastIp == "192.168.86.239"
BroadcastIp == "192.168.86.255"

\* `if args.target:` - the flag is given and not empty.
TargetGiven(tgt) == tgt # NONE /\ tgt # ""

\* The payloads main() and discover() build; target is NONE when the key is not set.
UnicastPayload(c, tok, tgt) ==
    [cmd |-> c, token |-> tok, target |-> IF TargetGiven(tgt) THEN tgt ELSE NONE]

\* A broadcast payload that copies the --target flag like the unicast ones.
BroadcastPayloadWithTarget(c, tok) ==
    [cmd |-> c, token |-> tok, target |-> IF TargetGiven(ctarget) THEN ctarget ELSE NONE]

BroadcastPayload(c, tok) == [cmd |-> c, token |-> tok, target |-> NONE]

\* A send_json that repeats its sendto.
SendJsonTwice(m, ip, bc) ==
    sent' = sent \o << [to |-> ip, broadcast |-> bc, msg |-> m],
                       [to |-> ip, broadcast |-> bc, msg |-> m] >>

\* send_json / discover: one s.sendto(data, (ip, port)).
SendJson(m, ip, bc) == sent' = Append(sent, [to |-> ip, broadcast |-> bc, msg |-> m])

\* The payload as the node decodes it from the wire.
AsDatagram(m) ==
    Dgram("object", m.token, m.target, m.cmd, Absent, NoIntensity, FALSE, "10.0.0.2")

\* An exit status that also reports a lone ping without result.
ExitStatusAnyPing(c, nfound) == IF c \in {"ping", "broadcast-ping"} /\ nfound = 0 THEN 1 ELSE 0

\* The exit status of main(): sys.exit(1) at line 119, else the return of main().
ExitStatus(c, nfound) == IF c = "broadcast-ping" /\ nfound = 0 THEN 1 ELSE 0

\* The keys of discover's dict.
FoundKeys(f) == {a \in Addrs : f[a] # 0}

\* A dict that keeps the first reply of an address.
StoreFirstReply(f, a, r) == IF f[a] # 0 THEN f ELSE [f EXCEPT ![a] = r]

\* found[addr[0]] = resp.decode(...), line 56.
StoreReply(f, a, r) == [f EXCEPT ![a] = r]

\* A socket left at the timeout make_sock gave it.
RecvTimeoutKept(w) == w

\* The timeout of one recvfrom in the loop: s.settimeout(0.1), line 50, replaces
\* the timeout=wait_s of line 46.
RecvTimeoutOf(w) == PollMs

\* The loop test of line 53.
InWindow(t, w) == t < w

\* main(), lines 89-98, first half: the unicast ping is sent.
CtlPing ==
    /\ cpc = "start" /\ sub = "ping"
    /\ SendJson(UnicastPayload("ping", ctoken, ctarget), UnicastIp, FALSE)
    /\ cpc' = "wait"
    /\ UNCHANGED <<sub, ctoken, ctarget, wait_s, nodeUp, ctime, found, nsent, heard,
                   result, exitCode>>
    /\ UNCHANGED <<nodeVars, bcVars>>

\* send_json, lines 36-39: the node's reply arrives within the timeout.  The node
\* replies only to a ping that passes its checks.
CtlPingReply ==
    /\ cpc = "wait"
    /\ nodeUp /\ Dispatched(AsDatagram(sent[Len(sent)].msg))
    /\ result' = "reply"
    /\ cpc' = "done"
    /\ exitCode' = ExitStatus(sub, 0)
    /\ UNCHANGED <<sub, ctoken, ctarget, wait_s, nodeUp, sent, ctime, found, nsent, heard>>
    /\ UNCHANGED <<nodeVars, bcVars>>

\* send_json, lines 40-42: socket.timeout, None is returned.
CtlPingTimeout ==
    /\ cpc = "wait"
    /\ result' = "none"
    /\ cpc' = "done"
    /\ exitCode' = ExitStatus(sub, 0)
    /\ UNCHANGED <<sub, ctoken, ctarget, wait_s, nodeUp, sent, ctime, found, nsent, heard>>
    /\ UNCHANGED <<nodeVars, bcVars>>

\* main(), lines 100-113: buzz and stop, sent without waiting.
CtlFire ==
    /\ cpc = "start" /\ sub \in {"buzz", "stop"}
    /\ SendJson(UnicastPayload(sub, ctoken, ctarget), UnicastIp, FALSE)
    /\ cpc' = "done"
    /\ exitCode' = ExitStatus(sub, 0)
    /\ UNCHANGED <<sub, ctoken, ctarget, wait_s, nodeUp, ctime, found, nsent, heard, result>>
    /\ UNCHANGED <<nodeVars, bcVars>>

\* main(), lines 125-131: broadcast-buzz.
CtlBroadcastBuzz ==
    /\ cpc = "start" /\ sub = "broadcast-buzz"
    /\ SendJson(BroadcastPayload("buzz", ctoken), BroadcastIp, TRUE)
    /\ cpc' = "done"
    /\ exitCode' = ExitStatus(sub, 0)
    /\ UNCHANGED <<sub, ctoken, ctarget, wait_s, nodeUp, ctime, found, nsent, heard, result>>
    /\ UNCHANGED <<nodeVars, bcVars>>

\* discover, lines 46-52: the broadcast ping is sent and t0 is taken.
DiscoverSend ==
    /\ cpc = "start" /\ sub = "broadcast-ping"
    /\ SendJson(BroadcastPayload("ping", ctoken), BroadcastIp, TRUE)
    /\ ctime' = 0
    /\ cpc' = "loop"
    /\ UNCHANGED <<sub, ctoken, ctarget, wait_s, nodeUp, found, nsent, heard, result, exitCode>>
    /\ UNCHANGED <<nodeVars, bcVars>>

\* discover, lines 53-56: the loop test passes and recvfrom returns a reply from a,
\* dl ms after it was called.
DiscoverRecv ==
    /\ cpc = "loop" /\ InWindow(ctime, wait_s)
    /\ \E a \in Addrs, dl \in ReplyDelays :
         /\ nsent[a] < MaxDup
         /\ ctime' = ctime + dl
         /\ nsent' = [nsent EXCEPT ![a] = @ + 1]
         /\ found' = StoreReply(found, a, nsent[a] + 1)
         /\ heard' = IF ctime + dl <= wait_s THEN heard \cup {a} ELSE heard
    /\ UNCHANGED <<cpc, sub, ctoken, ctarget, wait_s, nodeUp, sent, result, exitCode>>
    /\ UNCHANGED <<nodeVars, bcVars>>

\* discover, lines 53-58: the loop test passes and recvfrom times out after the poll.
DiscoverTimeout ==
    /\ cpc = "loop" /\ InWindow(ctime, wait_s)
    /\ ctime' = ctime + RecvTimeoutOf(wait_s)
    /\ UNCHANGED <<cpc, sub, ctoken, ctarget, wait_s, nodeUp, sent, found, nsent, heard,
                   result, exitCode>>
    /\ UNCHANGED <<nodeVars, bcVars>>

\* discover, lines 53 and 59-60, and main(), lines 116-123: the loop test fails,
\* discover returns, main exits.
DiscoverReturn ==
    /\ cpc = "loop" /\ ~InWindow(ctime, wait_s)
    /\ cpc' = "done"
    /\ exitCode' = ExitStatus(sub, Cardinality(FoundKeys(found)))
    /\ UNCHANGED <<sub, ctoken, ctarget, wait_s, nodeUp, sent, ctime, found, nsent, heard,
                   result>>
    /\ UNCHANGED <<nodeVars, bcVars>>

\* The controller not started.
CtlOff ==
    /\ cpc = "off"
    /\ sub = "ping"
    /\ ctoken = TOKEN
    /\ ctarget = NONE
    /\ wait_s = 0
    /\ nodeUp = FALSE
    /\ sent = <<>>
    /\ ctime = 0
    /\ found = [a \in Addrs |-> 0]
    /\ nsent = [a \in Addrs |-> 0]
    /\ heard = {}
    /\ result = "unset"
    /\ exitCode = -1

\* main() after parse_args.
CtlInit ==
    /\ cpc = "start"
    /\ sub \in Subcommands
    /\ ctoken \in {TOKEN, "wrong"}
    /\ ctarget \in Targets
    /\ wait_s \in Waits
    /\ nodeUp \in BOOLEAN
    /\ sent = <<>>
    /\ ctime = 0
    /\ found = [a \in Addrs |-> 0]
    /\ nsent = [a \in Addrs |-> 0]
    /\ heard = {}
    /\ result = "unset"
    /\ exitCode = -1

CtlNext ==
    \/ CtlPing \/ CtlPingReply \/ CtlPingTimeout \/ CtlFire \/ CtlBroadcastBuzz
    \/ DiscoverSend \/ DiscoverRecv \/ DiscoverTimeout \/ DiscoverReturn

\* ------------------------------------------------ calc_broadcast (ipaddress)
\* Bits of an address in the model (IPv4 has 32).
AddrBits == 4

AllOnes == 2^AddrBits - 1

BitAt(x, i) == (x \div 2^i) % 2

RECURSIVE BitAnd(_, _, _)
BitAnd(x, y, i) ==
    IF i = AddrBits THEN 0
    ELSE BitAt(x, i) * BitAt(y, i) * 2^i + BitAnd(x, y, i + 1)

RECURSIVE BitOr(_, _, _)
BitOr(x, y, i) ==
    IF i = AddrBits THEN 0
    ELSE (IF BitAt(x, i) + BitAt(y, i) > 0 THEN 2^i ELSE 0) + BitOr(x, y, i + 1)

\* ipaddress._count_righthand_zero_bits(number, bits)
RECURSIVE CountRighthandZeroBits(_, _)
CountRighthandZeroBits(x, i) ==
    IF x = 0 THEN AddrBits
    ELSE IF BitAt(x, i) = 1 THEN i
    ELSE CountRighthandZeroBits(x, i + 1)

\* ipaddress._prefix_from_ip_int: the prefix length, -1 for the ValueError.
PrefixFromIpInt(m) ==
    LET tz == CountRighthandZeroBits(m, 0)
        prefixlen == AddrBits - tz
    IN  IF m \div 2^tz = 2^prefixlen - 1 THEN prefixlen ELSE -1

\* ipaddress._prefix_from_ip_string: a netmask, else a hostmask, else
\* NetmaskValueError (-1).
PrefixFromIpString(m) ==
    IF PrefixFromIpInt(m) # -1 THEN PrefixFromIpInt(m)
    ELSE PrefixFromIpInt(AllOnes - m)

\* ipaddress._ip_int_from_prefix
IpIntFromPrefix(p) == AllOnes - (2^(AddrBits - p) - 1)

\* A calc_broadcast that returns the network address.
NetworkOf(ip, netmask) == BitAnd(ip, netmask, 0)

\* broadcast_address of the network: the network address with the host bits set.
BroadcastOf(ip, netmask) ==
    BitOr(BitAnd(ip, netmask, 0), AllOnes - netmask, 0)

\* calc_broadcast(ip, mask), lines 25-27: IPv4Network(f"{ip}/{mask}", strict=False)
\* and its broadcast_address; -1 when the constructor raises.
CalcBroadcast(ip, m) ==
    IF PrefixFromIpString(m) = -1 THEN -1
    ELSE BroadcastOf(ip, IpIntFromPrefix(PrefixFromIpString(m)))

CallCalcBroadcast ==
    /\ bres = -2
    /\ bres' = CalcBroadcast(bip, bmask)
    /\ UNCHANGED <<bip, bmask>>
    /\ UNCHANGED <<nodeVars, ctlVars>>

BcOff == bip = 0 /\ bmask = 0 /\ bres = -2

BcInit == bip \in 0..AllOnes /\ bmask \in 0..AllOnes /\ bres = -2

\* --------------------------------------------------------- specifications
\* The node alone.
Init == NodeInit /\ CtlOff /\ BcOff

Next == RecvDatagram \/ RecvTimeout \/ BeepEnd \/ BeepInterrupted \/ DeadlineCheck

Spec == Init /\ [][Next]_vars

\* One run of the controller; the process keeps running until it exits.
CtlSpecInit == CtlInit /\ NodeInit /\ now = 5000 /\ BcOff

CtlSpec == CtlSpecInit /\ [][CtlNext]_vars /\ WF_vars(CtlNext)

\* One call of calc_broadcast.
BcSpecInit == BcInit /\ NodeInit /\ now = 5000 /\ CtlOff

BcNext == CallCalcBroadcast

BcSpec == BcSpecInit /\ [][BcNext]_vars

TypeOK ==
    /\ duty \in 0..DutyMax
    /\ buzzer \in {0, 1}
    /\ active_until_ms \in 0..(TicksPeriod - 1)
    /\ now \in 0..(TicksPeriod - 1)
    /\ pc \in {"recv", "beep", "check", "dead"}

\* ------------------------------------------------------------------ claims
\* This iteration received a datagram (the step from the receive wait into, or
\* through, handle_packet).
Received == pc = "recv" /\ cur'.kind # "none"

\* The step leaves the motor output, the deadline and the buzzer as they were and
\* sends no reply.
NoEffect ==
    /\ duty' = duty
    /\ active_until_ms' = active_until_ms
    /\ buzzer' = buzzer
    /\ replies' = replies

\* The step does not even call sock.sendto.
NoSend == lastSend' = "none"

\* The datagram is a JSON object that passes the token and the target check.
Authorized(m) ==
    m.kind = "object" /\ m.token = TOKEN /\ m.target \in {NONE, "", DEVICE_ID}

Min(a, b) == IF a < b THEN a ELSE b
Max(a, b) == IF a > b THEN a ELSE b

\* C1: in every node state and for every cmd, processing a datagram whose token is
\* absent or differs from the node's token changes neither the motor output, nor
\* active_until_ms, nor the buzzer output, and sends no reply.
C1_BadTokenNoEffect ==
    [][(Received /\ cur'.token # TOKEN) => (NoEffect /\ NoSend)]_vars

\* C1 witness: a ping with a wrong token was processed while the motor was on.
C1_Witness ==
    /\ pc = "check" /\ cur.kind = "object" /\ cur.token = "wrong"
    /\ cur.cmd = "ping" /\ wasActive /\ duty # 0

\* C2 as stated: a correct token and a target that is present and not the node's
\* identifier, whatever it is, leave the outputs unchanged and send no reply.
C2_AnyOtherTargetNoEffect ==
    [][(Received /\ cur'.kind = "object" /\ cur'.token = TOKEN
        /\ cur'.target # NONE /\ cur'.target # DEVICE_ID) => NoEffect]_vars

\* C2 amended: a correct token and a target that is present, not empty and not the
\* node's identifier leave the outputs unchanged and send no reply.
C2_OtherTargetNoEffect ==
    [][(Received /\ cur'.kind = "object" /\ cur'.token = TOKEN
        /\ cur'.target \notin {NONE, "", DEVICE_ID}) => (NoEffect /\ NoSend)]_vars

\* C2 witness: a stop for another node, with the right token, was processed while
\* the motor was on, and the motor is still on.
C2_Witness ==
    /\ pc = "check" /\ cur.kind = "object" /\ cur.token = TOKEN
    /\ cur.target = "haptic02" /\ cur.cmd = "stop" /\ wasActive /\ duty # 0

\* C3: no received datagram ends the node's loop.
C3_LoopNeverEnds == pc # "dead"

\* C4: a payload that is not JSON is dropped: outputs unchanged, no reply, and the
\* loop goes on to the deadline check of the same iteration.
C4_BadJSONDropped ==
    [][(Received /\ cur'.kind = "garbage") => (NoEffect /\ NoSend /\ pc' = "check")]_vars

\* C4 witness: an undecodable payload was processed while the motor was on.
C4_Witness ==
    pc = "check" /\ cur.kind = "garbage" /\ wasActive /\ duty # 0

\* C5: once the duration commanded by an authorized buzz has elapsed and the loop
\* has run its deadline check, the node is IDLE again without any stop command
\* (at the receive wait no commanded duration is over and still pending).
C5_IdleOnceDurationElapsed ==
    pc = "recv" => (due = -1 \/ elapsed < due)

\* The duration and the duty an authorized buzz asks for, after clamping.
AskedDuration(m) ==
    Min(Max(IF m.duration_ms.t = "absent" THEN 1000 ELSE m.duration_ms.v, 0), 10000)

AskedDuty(m) ==
    IF m.intensity.t = "absent" THEN 65535
    ELSE IF m.intensity.n <= 0 THEN 0
    ELSE IF m.intensity.n >= m.intensity.d THEN 65535
    ELSE (m.intensity.n * 65535) \div m.intensity.d

\* The step processes an authorized buzz whose fields int() and float() accept.
BuzzProcessed ==
    /\ Received /\ Authorized(cur') /\ cur'.cmd = "buzz"
    /\ cur'.duration_ms.t # "bad" /\ cur'.intensity.t # "bad"

\* C6: an authorized buzz processed while the node is ACTIVE sets the output to
\* exactly its own clamped intensity and active_until_ms to the tick of its
\* processing plus its own clamped duration; nothing of the earlier buzz remains.
C6_SecondBuzzOverwrites ==
    [][(BuzzProcessed /\ Active) =>
          /\ duty' = AskedDuty(cur')
          /\ active_until_ms' = (now' + AskedDuration(cur')) % TicksPeriod]_vars

\* C6 witness: a buzz of 10000 ms at full intensity was processed while an earlier
\* buzz was pending, and its parameters are the ones in effect.
C6_Witness ==
    /\ pc = "check" /\ wasActive /\ Authorized(cur) /\ cur.cmd = "buzz"
    /\ cur.duration_ms = IntField(10000) /\ cur.intensity = Frac(1, 1)
    /\ duty = 65535 /\ active_until_ms = (now + 10000) % TicksPeriod
    /\ elapsed > 0

\* C7: an authorized stop processed while ACTIVE leaves the node IDLE in the same
\* iteration (output 0, active_until_ms cleared), and the node becomes ACTIVE
\* again only by processing an authorized buzz.
C7_StopIsImmediate ==
    [][/\ (Received /\ Active /\ Authorized(cur') /\ cur'.cmd = "stop")
            => (duty' = 0 /\ active_until_ms' = 0 /\ pc' = "check")
       /\ (~Active /\ Active') => BuzzProcessed]_vars

\* C7 witness: a stop was processed while the node was ACTIVE and the node is IDLE.
C7_Witness ==
    /\ pc = "check" /\ wasActive /\ Authorized(cur) /\ cur.cmd = "stop"
    /\ duty = 0 /\ active_until_ms = 0

\* The step processes a ping that passes the token and the target check.
PingProcessed == Received /\ Authorized(cur') /\ cur'.cmd = "ping"

ReplyTo(m) == [to |-> m.src, id |-> DEVICE_ID, ok |-> TRUE]

\* C8 as stated: an authorized ping leaves output and active_until_ms unchanged and
\* sends exactly one reply, to its sender, before the node is back at the receive
\* wait; no other step sends a reply.
C8_PingSendsOneReply ==
    [][IF PingProcessed
       THEN /\ duty' = duty /\ active_until_ms' = active_until_ms
            /\ replies' = Append(replies, ReplyTo(cur'))
            /\ pc' = "check"
       ELSE replies' = replies]_vars

\* C8 amended: an authorized ping leaves output and active_until_ms unchanged and
\* makes exactly one send, to its sender, before the node is back at the receive
\* wait: the reply goes out, or the send fails, the failure is swallowed and no
\* reply goes out; no other step sends or tries to send.
C8_PingSendsAtMostOneReply ==
    [][IF PingProcessed
       THEN /\ duty' = duty /\ active_until_ms' = active_until_ms
            /\ \/ lastSend' = "sent" /\ replies' = Append(replies, ReplyTo(cur'))
               \/ lastSend' = "failed" /\ replies' = replies
            /\ pc' = "check"
       ELSE replies' = replies /\ lastSend' = "none"]_vars

\* C8 witness: a ping from the second sender was processed while the motor was on,
\* and the one reply sent went to that sender.
C8_Witness ==
    /\ pc = "check" /\ Authorized(cur) /\ cur.cmd = "ping" /\ cur.src = "10.0.0.3"
    /\ wasActive /\ duty # 0 /\ lastSend = "sent"
    /\ replies = <<ReplyTo(cur)>>

\* C9: for every integer duration_ms of an authorized buzz the deadline is the
\* tick of processing plus min(max(duration_ms, 0), 10000), and the buzz is applied.
C9_DurationClamped ==
    [][(BuzzProcessed /\ cur'.duration_ms.t = "num") =>
          /\ pc' \in {"check", "beep"}
          /\ active_until_ms' =
                (now' + Min(Max(cur'.duration_ms.v, 0), 10000)) % TicksPeriod]_vars

\* C9 witness: a buzz of 50000 ms was processed and the deadline is 10000 ms ahead.
C9_Witness ==
    /\ pc = "check" /\ Authorized(cur) /\ cur.cmd = "buzz"
    /\ cur.duration_ms = IntField(50000) /\ cur.intensity.t # "bad"
    /\ active_until_ms = (now + 10000) % TicksPeriod

\* C10: for every numeric intensity of an authorized buzz the duty written is
\* int(min(max(intensity, 0), 1) * 65535), and the duty is within 0..65535 always.
C10_IntensityClamped ==
    [][/\ duty' \in 0..65535
       /\ (BuzzProcessed /\ cur'.intensity.t = "num") => duty' = AskedDuty(cur')]_vars

\* C10 witness: a buzz of intensity 1.7 was processed and the duty is full scale.
C10_Witness ==
    /\ pc = "check" /\ Authorized(cur) /\ cur.cmd = "buzz"
    /\ cur.intensity = Frac(17, 10) /\ cur.duration_ms.t # "bad"
    /\ duty = 65535

\* ------------------------------------------------------- controller claims
DiscoverDone == cpc = "done" /\ sub = "broadcast-ping"

PingDone == cpc = "done" /\ sub = "ping"

OneBroadcastPing ==
    /\ Len(sent) = 1
    /\ sent[1].broadcast
    /\ sent[1].to = BroadcastIp
    /\ sent[1].msg.cmd = "ping"

\* C11: when discover has returned, exactly one broadcast ping was sent, every
\* address whose reply arrived within wait_s has an entry, the entries are exactly
\* the addresses whose reply arrived while discover was waiting, an entry holds the
\* last reply of its address, and an address that sent nothing has no entry.
C11_KeysAreReceivedRepliers ==
    DiscoverDone =>
        /\ OneBroadcastPing
        /\ heard \subseteq FoundKeys(found)
        /\ FoundKeys(found) = {a \in Addrs : nsent[a] > 0}
        /\ \A a \in Addrs : found[a] = nsent[a]

C11_Witness ==
    /\ DiscoverDone
    /\ Cardinality(FoundKeys(found)) = 3
    /\ \E a \in Addrs : nsent[a] = 2 /\ found[a] = 2

\* C12: discover returns, and when it has returned the time since it started is at
\* least wait_s and at most wait_s plus one poll interval.
C12_DiscoverReturnsInTime ==
    /\ [](DiscoverDone => (wait_s <= ctime /\ ctime <= wait_s + PollMs))
    /\ (sub = "broadcast-ping" => <>(cpc = "done"))

C12_Witness ==
    /\ DiscoverDone
    /\ wait_s = 200
    /\ ctime > wait_s
    /\ \E a \in Addrs : nsent[a] = MaxDup

\* The node does not answer: it is not there, or the token or the target is not its own.
NodeDrops ==
    \/ ~nodeUp
    \/ ctoken # TOKEN
    \/ (TargetGiven(ctarget) /\ ctarget # DEVICE_ID)

\* C13: when the unicast ping has finished, exactly one datagram was sent, to the
\* unicast address, the outcome is a reply or NoReply and the run ended normally; if
\* the node drops the ping the outcome is NoReply.
C13_PingOnceReplyOrNoReply ==
    PingDone =>
        /\ Len(sent) = 1
        /\ ~sent[1].broadcast
        /\ sent[1].msg.cmd = "ping"
        /\ result \in {"reply", "none"}
        /\ exitCode = 0
        /\ (NodeDrops => result = "none")

C13_Witness ==
    /\ PingDone
    /\ nodeUp /\ ctoken = TOKEN /\ ctarget = "haptic02"
    /\ result = "none"
    /\ Len(sent) = 1

\* C14: when the controller has exited, the status is non-zero exactly if the
\* subcommand is broadcast-ping and no reply was collected.
C14_NonZeroOnlyForEmptyDiscovery ==
    cpc = "done" =>
        /\ exitCode \in {0, 1}
        /\ (exitCode # 0 <=> (sub = "broadcast-ping" /\ FoundKeys(found) = {}))

C14_Witness ==
    /\ cpc = "done"
    /\ sub = "broadcast-ping"
    /\ wait_s > 0
    /\ FoundKeys(found) = {}
    /\ exitCode = 1

\* ------------------------------------------------------ calc_broadcast claim
\* A subnet mask: ones from the top, then zeros.
IsSubnetMask(m) == \E p \in 0..AddrBits : m = AllOnes - (2^(AddrBits - p) - 1)

\* C15: for every base address and subnet mask, the result of calc_broadcast has
\* the base address's bit wherever the mask has a 1 and a 1 wherever the mask has a 0.
C15_BroadcastIsAllOnesHost ==
    (bres # -2 /\ IsSubnetMask(bmask)) =>
        /\ bres \in 0..AllOnes
        /\ \A i \in 0..(AddrBits - 1) :
             BitAt(bres, i) = IF BitAt(bmask, i) = 1 THEN BitAt(bip, i) ELSE 1

C15_Witness ==
    /\ bmask = AllOnes - 3
    /\ bip = 9
    /\ bres = 11

\* --------------------------------------------------- node claims, continued
StopProcessed == Received /\ Authorized(cur') /\ cur'.cmd = "stop"

\* C16: whenever the node waits for a datagram, the motor output is non-zero if and
\* only if active_until_ms is not 0 and lies after the current tick.
C16_OutputIffDeadlinePending ==
    pc = "recv" =>
        (duty # 0 <=> (active_until_ms # 0 /\ TicksDiff(active_until_ms, now) > 0))

\* C17: a commanded duration that is over is never pending for longer than one
\* receive poll interval: the deadline check that ends it runs at most
\* RecvTimeoutMs after the deadline.
C17_StopWithinPollInterval ==
    due # -1 => elapsed <= due + RecvTimeoutMs

\* C18: the alert pulse of a buzz holds the loop for no time: the loop reaches the
\* deadline check at the tick at which the buzz was processed, and the pulse
\* changes neither the motor output nor active_until_ms.
C18_BeepDoesNotBlock ==
    [][(pc = "beep" /\ pc' = "check") =>
          /\ elapsed' = elapsed
          /\ duty' = duty
          /\ active_until_ms' = active_until_ms]_vars

\* C19: every received datagram is handled by itself, whatever was processed
\* before: a processed buzz leaves exactly its own clamped intensity and its own
\* deadline (also over a pending later deadline), a processed stop leaves output 0
\* and no deadline, any other datagram leaves both as they were, and the next
\* datagram is received only in a later iteration.
C19_LastCommandWins ==
    [][Received =>
          /\ BuzzProcessed =>
                /\ duty' = AskedDuty(cur')
                /\ active_until_ms' = TicksAdd(now', AskedDuration(cur'))
          /\ StopProcessed => (duty' = 0 /\ active_until_ms' = 0)
          /\ ~(BuzzProcessed \/ StopProcessed) => UNCHANGED <<duty, active_until_ms>>
          /\ pc' # "recv"]_vars

\* C19 witness: a buzz of 200 ms at half intensity was processed while a buzz was
\* pending, and its parameters are the ones in effect.
C19_Witness ==
    /\ pc = "check" /\ wasActive /\ Authorized(cur) /\ cur.cmd = "buzz"
    /\ cur.duration_ms = IntField(200) /\ cur.intensity = Frac(1, 2)
    /\ duty = 32767 /\ active_until_ms = TicksAdd(now, 200)
    /\ due = elapsed + 200
    /\ elapsed = MaxElapsed - 20

\* C20: a processed buzz never leaves active_until_ms at the inactive value 0.
C20_DeadlineNeverSentinel ==
    [][BuzzProcessed => active_until_ms' # 0]_vars

\* ------------------------------------------------------- implicit claims
\* C21: an authorized datagram whose cmd is missing or is none of buzz, stop, ping
\* changes neither the motor output, nor active_until_ms, nor the buzzer, sends no
\* reply, and the loop goes on to the deadline check.
C21_UnknownCmdNoEffect ==
    [][(Received /\ Authorized(cur') /\ cur'.cmd \notin {"buzz", "stop", "ping"})
          => (NoEffect /\ NoSend /\ pc' = "check")]_vars

\* C21 witness: an authorized "reboot" was processed while the motor was on, and
\* the motor is still on.
C21_Witness ==
    /\ pc = "check" /\ Authorized(cur) /\ cur.cmd = "reboot"
    /\ wasActive /\ duty # 0 /\ active_until_ms # 0

\* C22: a processed buzz without duration_ms gets a deadline 1000 ms after the tick
\* of its processing, and one without intensity gets the full output.
C22_DefaultsApplied ==
    [][BuzzProcessed =>
          /\ cur'.duration_ms.t = "absent" => active_until_ms' = TicksAdd(now', 1000)
          /\ cur'.intensity.t = "absent" => duty' = 65535
          /\ pc' \in {"check", "beep"}]_vars

\* C22 witness: a buzz with neither field was processed.
C22_Witness ==
    /\ pc = "check" /\ Authorized(cur) /\ cur.cmd = "buzz" /\ ~cur.beep
    /\ cur.duration_ms.t = "absent" /\ cur.intensity.t = "absent"
    /\ duty = 65535 /\ active_until_ms = TicksAdd(now, 1000)
    /\ due = elapsed + 1000

\* The message is accepted by a node with the given identifier and the token TOKEN.
AcceptedBy(id, m) == m.token = TOKEN /\ (m.target \in {NONE, ""} \/ m.target = id)

\* C23: every broadcast message has no target field, whatever --target is, and is
\* accepted by every node whose token it carries, whatever the node's identifier;
\* every unicast message has a target field exactly when --target is given and not
\* empty, and then it is that target.
C23_BroadcastHasNoTarget ==
    \A i \in 1..Len(sent) :
        IF sent[i].broadcast
        THEN /\ sent[i].msg.target = NONE
             /\ sent[i].msg.token = TOKEN =>
                   /\ \A id \in {DEVICE_ID, "haptic02"} : AcceptedBy(id, sent[i].msg)
                   /\ Dispatched(AsDatagram(sent[i].msg))
        ELSE sent[i].msg.target = (IF ctarget \in {NONE, ""} THEN NONE ELSE ctarget)

\* C23 witness: broadcast-buzz was run with --target haptic02 and the message sent
\* has no target.
C23_Witness ==
    /\ cpc = "done" /\ sub = "broadcast-buzz" /\ ctarget = "haptic02" /\ ctoken = TOKEN
    /\ Len(sent) = 1 /\ sent[1].broadcast /\ sent[1].msg.target = NONE

\* C24: the buzzer is off whenever the node is not inside beep(), in particular at
\* the receive wait and after an interrupted pulse, and it is on only while an
\* authorized buzz with beep set is being processed.
C24_BuzzerOffOutsideBeep ==
    /\ pc # "beep" => buzzer = 0
    /\ buzzer = 1 => (Authorized(cur) /\ cur.cmd = "buzz" /\ cur.beep)

\* C24 witness: the pulse of a processed buzz was interrupted, and the buzzer is off.
C24_Witness ==
    /\ pc = "dead" /\ Authorized(cur) /\ cur.cmd = "buzz" /\ cur.beep
    /\ cur.duration_ms.t # "bad" /\ cur.intensity.t # "bad"
    /\ duty # 0 /\ duty = AskedDuty(cur)
    /\ buzzer = 0

====
